---- MODULE Spec2Model ----
(***************************************************************************)
(* A model of wf-reg-test: the repository accessor (repos.py), the         *)
(* ignore-aware directory fold (util.py) and the orchestrator entry points *)
(* (__main__.py).  Python strings are sequences of one-character strings,  *)
(* so that parsing and formatting are computed, not assumed.               *)
(***************************************************************************)
EXTENDS Integers, Sequences, FiniteSets, TLC

VARIABLES
    \* get_repo_accessor
    ra_in,         \* the parts the input URL was written from
    ra_result,     \* None before the call, then its outcome
    \* GitHubRepo.get_revisions and GitHubRepo.checkout
    gh_repo,       \* the accessor (self)
    gh_forge,      \* what the forge API returns: tags and commits, with dates
    gh_revs,       \* None, then the Revisions get_revisions returned
    co_arg,        \* the argument of the last checkout call
    co_result,     \* None, then the outcome of that call
    \* GitHubRevision.__enter__ / __exit__ and the clone cache
    up_revs,       \* upstream: repository URL -> revisions published so far
    cache,         \* .cache2: directory name -> the clone it holds
    cm,            \* the GitHubRevision in use, or None
    cm_pc,         \* "none", "returned", "entered", "failed"
    local_copy,    \* what __enter__ yielded, or None
    clone_count,   \* repository URL -> calls of clone_from so far
    \* util.walk
    fs,            \* the directory tree walked: root, entries, ignore files
    wk_stack,      \* the frames of the recursion, innermost last
    wk_visited,    \* the paths mapper was invoked on, in order
    \* refresh_revisions
    rf_upstream,   \* application -> identifiers the forge lists now
    rf_db,         \* application -> stored Revisions
    rf_warnings,   \* warnings emitted so far
    rf_outcome,    \* outcome of the last pass
    \* run_out_of_date
    run_db,        \* revision -> its executions, oldest first
    run_now,       \* the clock
    run_selected,  \* revisions_to_test of the last run
    run_outcome,   \* outcome of the last run
    \* flat-file orchestrator: selection
    fl_catalog,    \* revision -> its executions, oldest first
    fl_now,        \* the clock
    fl_queue,      \* None, then the shuffled run queue
    \* flat-file orchestrator: orphan check
    oc_trees,      \* the revisions' content trees
    oc_outputs,    \* the executions' output trees
    oc_store,      \* the entries of the data directory
    oc_used,       \* None, then the computed "used" set
    oc_warning     \* None, then the paths the warning lists

vars_ra == <<ra_in, ra_result>>
vars_gh == <<gh_repo, gh_forge, gh_revs, co_arg, co_result>>
vars_cc == <<up_revs, cache, cm, cm_pc, local_copy, clone_count>>
vars_wk == <<fs, wk_stack, wk_visited>>
vars_rf == <<rf_upstream, rf_db, rf_warnings, rf_outcome>>
vars_run == <<run_db, run_now, run_selected, run_outcome>>
vars_fl == <<fl_catalog, fl_now, fl_queue>>
vars_oc == <<oc_trees, oc_outputs, oc_store, oc_used, oc_warning>>

vars == <<vars_ra, vars_gh, vars_cc, vars_wk, vars_rf, vars_run, vars_fl, vars_oc>>

None == [type |-> "None"]

\* a component that a specification does not exercise stays as it starts
Idle_ra == ra_in = None /\ ra_result = None
Idle_gh == gh_repo = None /\ gh_forge = None /\ gh_revs = None /\ co_arg = None /\ co_result = None
Idle_cc == up_revs = None /\ cache = None /\ cm = None /\ cm_pc = "none" /\ local_copy = None /\ clone_count = None
Idle_wk == fs = None /\ wk_stack = <<>> /\ wk_visited = <<>>
Idle_rf == rf_upstream = None /\ rf_db = None /\ rf_warnings = None /\ rf_outcome = None
Idle_run == run_db = None /\ run_now = 0 /\ run_selected = None /\ run_outcome = None
Idle_fl == fl_catalog = None /\ fl_now = 0 /\ fl_queue = None
Idle_oc == oc_trees = None /\ oc_outputs = None /\ oc_store = None /\ oc_used = None /\ oc_warning = None

-----------------------------------------------------------------------------
(* String literals of the source, as character sequences.                  *)

S_https == <<"h", "t", "t", "p", "s">>
S_github_com == <<"g", "i", "t", "h", "u", "b", ".", "c", "o", "m">>
S_gitlab_com == <<"g", "i", "t", "l", "a", "b", ".", "c", "o", "m">>
S_ssh_alias == <<"g", "i", "t", "@", "g", "i", "t", "h", "u", "b", ":">>
S_dot_git == <<".", "g", "i", "t">>
S_slash_dot_git == <<"/", ".", "g", "i", "t">>
S_only_tags == <<"o", "n", "l", "y", "_", "t", "a", "g", "s">>
S_tree == <<"t", "r", "e", "e">>
S_gitignore == <<".", "g", "i", "t", "i", "g", "n", "o", "r", "e">>
S_github_prefix == <<"h", "t", "t", "p", "s", ":", "/", "/", "g", "i", "t", "h", "u", "b", ".", "c", "o", "m", "/">>
S_tree_infix == <<"/", "t", "r", "e", "e", "/">>

-----------------------------------------------------------------------------
(* Python str operations.                                                  *)

StartsWith(s, p) == Len(s) >= Len(p) /\ SubSeq(s, 1, Len(p)) = p

EndsWith(s, p) == Len(s) >= Len(p) /\ SubSeq(s, Len(s) - Len(p) + 1, Len(s)) = p

\* sub in s
Contains(s, sub) == \E i \in 0..(Len(s) - Len(sub)) : SubSeq(s, i + 1, i + Len(sub)) = sub

\* s[i:] with a 1-based i
From(s, i) == SubSeq(s, i, Len(s))

\* 1-based index of the first character of s that is in C, 0 when there is none
Find(s, C) ==
    IF \E i \in 1..Len(s) : s[i] \in C
    THEN CHOOSE i \in 1..Len(s) : s[i] \in C /\ \A j \in 1..(i - 1) : s[j] \notin C
    ELSE 0

\* 1-based index of the last character of s that is in C, 0 when there is none
RFind(s, C) ==
    IF \E i \in 1..Len(s) : s[i] \in C
    THEN CHOOSE i \in 1..Len(s) : s[i] \in C /\ \A j \in (i + 1)..Len(s) : s[j] \notin C
    ELSE 0

RECURSIVE StrReplace(_, _, _)
\* s.replace(old, new): every non-overlapping occurrence, left to right
StrReplace(s, old, new) ==
    IF Len(s) < Len(old) THEN s
    ELSE IF StartsWith(s, old)
         THEN new \o StrReplace(From(s, Len(old) + 1), old, new)
         ELSE <<Head(s)>> \o StrReplace(Tail(s), old, new)

RECURSIVE StrSplit(_, _)
\* s.split(c) for a one-character separator c
StrSplit(s, c) ==
    LET i == Find(s, {c})
    IN IF i = 0 THEN <<s>>
       ELSE <<SubSeq(s, 1, i - 1)>> \o StrSplit(From(s, i + 1), c)

RECURSIVE StrJoin(_, _)
\* sep.join(parts)
StrJoin(parts, sep) ==
    IF parts = <<>> THEN <<>>
    ELSE IF Len(parts) = 1 THEN parts[1]
    ELSE parts[1] \o sep \o StrJoin(Tail(parts), sep)

-----------------------------------------------------------------------------
(* urllib.parse.urlparse and pathlib.Path(...).parts                        *)

AlphaChars ==
    {"a", "b", "c", "d", "e", "f", "g", "h", "i", "j", "k", "l", "m", "n",
     "o", "p", "q", "r", "s", "t", "u", "v", "w", "x", "y", "z"}

SchemeChars == AlphaChars \cup {"0", "1", "2", "3", "4", "5", "6", "7", "8", "9", "+", "-", "."}

\* the schemes of urllib.parse.uses_params that the model's URLs can carry
UsesParams == {<<>>, S_https}

\* F(x) with x evaluated once, before F is applied
Then(x, F(_)) == CHOOSE r \in {F(v) : v \in {x}} : TRUE

\* urlsplit, first step: the scheme, when what precedes the first ":" is one
UrlScheme(url) ==
    LET i == Find(url, {":"})
    IN IF /\ i > 1
          /\ url[1] \in AlphaChars
          /\ \A j \in 1..(i - 1) : url[j] \in SchemeChars
       THEN [scheme |-> SubSeq(url, 1, i - 1), rest |-> From(url, i + 1)]
       ELSE [scheme |-> <<>>, rest |-> url]

\* urlsplit, second step: after "//" the netloc runs to the first of "/", "?", "#"
UrlNetloc(p) ==
    LET d == Find(From(p.rest, 3), {"/", "?", "#"})
    IN IF ~StartsWith(p.rest, <<"/", "/">>)
       THEN [scheme |-> p.scheme, netloc |-> <<>>, rest |-> p.rest]
       ELSE IF d = 0
            THEN [scheme |-> p.scheme, netloc |-> From(p.rest, 3), rest |-> <<>>]
            ELSE [scheme |-> p.scheme, netloc |-> SubSeq(p.rest, 3, d + 1),
                  rest |-> From(p.rest, d + 2)]

\* urlsplit, third step: the fragment follows the first "#"
UrlFragment(p) ==
    LET h == Find(p.rest, {"#"})
    IN [scheme |-> p.scheme, netloc |-> p.netloc,
        fragment |-> IF h = 0 THEN <<>> ELSE From(p.rest, h + 1),
        rest |-> IF h = 0 THEN p.rest ELSE SubSeq(p.rest, 1, h - 1)]

\* urlsplit, fourth step: the query follows the first "?"
UrlQuery(p) ==
    LET q == Find(p.rest, {"?"})
    IN [scheme |-> p.scheme, netloc |-> p.netloc, fragment |-> p.fragment,
        query |-> IF q = 0 THEN <<>> ELSE From(p.rest, q + 1),
        rest |-> IF q = 0 THEN p.rest ELSE SubSeq(p.rest, 1, q - 1)]

\* urlparse's _splitparams: the params follow the first ";" of the last path
\* segment, for the schemes that use params
UrlParams(p) ==
    LET slash == RFind(p.rest, {"/"})
        semi == Find(From(p.rest, slash + 1), {";"})
        split == p.scheme \in UsesParams /\ semi # 0
    IN [scheme |-> p.scheme,
        netloc |-> p.netloc,
        path |-> IF split THEN SubSeq(p.rest, 1, slash + semi - 1) ELSE p.rest,
        params |-> IF split THEN From(p.rest, slash + semi + 1) ELSE <<>>,
        query |-> p.query,
        fragment |-> p.fragment]

urlparse(url) ==
    Then(Then(Then(Then(UrlScheme(url), UrlNetloc), UrlFragment), UrlQuery), UrlParams)

\* PurePosixPath(p).parts: the root, then the components that are neither
\* empty nor "."
PathParts(p) ==
    LET root == IF StartsWith(p, <<"/", "/">>) /\ ~StartsWith(p, <<"/", "/", "/">>)
                THEN <<"/", "/">>
                ELSE IF StartsWith(p, <<"/">>) THEN <<"/">> ELSE <<>>
        comps == SelectSeq(StrSplit(p, "/"), LAMBDA c : c # <<>> /\ c # <<".">>)
    IN IF root = <<>> THEN comps ELSE <<root>> \o comps

-----------------------------------------------------------------------------
(* repos.py: get_repo_accessor                                             *)

GitHubRepo(user, repo, only_tags) ==
    [type |-> "GitHubRepo", user |-> user, repo |-> repo, only_tags |-> only_tags]

NotImplementedError == [type |-> "NotImplementedError"]

\* get_repo_accessor, from the parsed url and the parts of its path on
AccessorOf(parsed_url, parts) ==
    IF parsed_url.netloc = S_github_com \/ Contains(parsed_url.netloc, S_ssh_alias)
    THEN IF Len(parts) = 3
         THEN GitHubRepo(parts[2],
                         StrReplace(parts[3], S_dot_git, <<>>),
                         Contains(parsed_url.query, S_only_tags))
         ELSE NotImplementedError
    ELSE NotImplementedError

get_repo_accessor(url) ==
    Then(urlparse(url),
         LAMBDA parsed_url : Then(PathParts(parsed_url.path),
                                  LAMBDA parts : AccessorOf(parsed_url, parts)))

-----------------------------------------------------------------------------
(* Inputs of get_repo_accessor: a URL written from a host, the path        *)
(* segments and an optional query string.                                  *)

MaxChunks == 2

NameChunks == {<<"r">>, S_dot_git, <<"h", "u", "b">>}

RECURSIVE ChunkNames(_)
\* the names made of 1..n chunks
ChunkNames(n) ==
    IF n = 0 THEN {}
    ELSE NameChunks \cup {a \o b : a \in ChunkNames(n - 1), b \in NameChunks}

RepoNames == ChunkNames(MaxChunks)

Owners == {<<"u">>}

Hosts == {S_github_com, S_gitlab_com}

NoQuery == <<"-">>

Queries ==
    {NoQuery,
     S_only_tags,
     S_only_tags \o <<"=", "1">>,
     <<"x", "=", "1">>,
     <<"x", "=", "1", "&">> \o S_only_tags,
     <<"n", "o", "t", "_">> \o S_only_tags \o <<"=", "1">>}

SegmentLists ==
    {<<o>> : o \in Owners}
    \cup {<<o, r>> : o \in Owners, r \in RepoNames}
    \cup {<<o, r, <<"s", "u", "b">>>> : o \in Owners, r \in RepoNames}

AccessorInputs == [host : Hosts, segs : SegmentLists, query : Queries]

\* the URL text of an input: https://{host}/{seg}/.../{seg}[?{query}]
FormatUrl(in) ==
    S_https \o <<":", "/", "/">> \o in.host \o <<"/">> \o StrJoin(in.segs, <<"/">>)
    \o (IF in.query = NoQuery THEN <<>> ELSE <<"?">> \o in.query)

InitAccessor ==
    /\ ra_in \in AccessorInputs
    /\ ra_result = None
    /\ Idle_gh /\ Idle_cc /\ Idle_wk /\ Idle_rf /\ Idle_run /\ Idle_fl /\ Idle_oc

\* one call get_repo_accessor(url)
CallGetRepoAccessor ==
    /\ ra_result = None
    /\ ra_result' = get_repo_accessor(FormatUrl(ra_in))
    /\ UNCHANGED <<ra_in, vars_gh, vars_cc, vars_wk, vars_rf, vars_run, vars_fl, vars_oc>>

NextAccessor == CallGetRepoAccessor

SpecAccessor == InitAccessor /\ [][NextAccessor]_vars

-----------------------------------------------------------------------------
(* C3 *)

\* the repository name the URL names: the segment less one trailing ".git"
StripDotGitSuffix(seg) ==
    IF EndsWith(seg, S_dot_git) THEN SubSeq(seg, 1, Len(seg) - Len(S_dot_git)) ELSE seg

\* the query carries the flag: one of its "&"-separated parameters is named only_tags
CarriesOnlyTags(query) ==
    /\ query # NoQuery
    /\ \E i \in 1..Len(StrSplit(query, "&")) :
          LET param == StrSplit(query, "&")[i]
          IN param = S_only_tags \/ StartsWith(param, S_only_tags \o <<"=">>)

IsWholeForgeRepo(in) == in.host = S_github_com /\ Len(in.segs) = 2

\* C3: a URL https://github.com/{owner}/{repo}[.git][?only_tags] resolves to
\* GitHubRepo(owner, repo less one trailing ".git", flag carried); a URL with
\* another number of path segments or another host fails, unsupported.
C3_Resolution ==
    ra_result # None =>
        IF IsWholeForgeRepo(ra_in)
        THEN ra_result = GitHubRepo(ra_in.segs[1],
                                    StripDotGitSuffix(ra_in.segs[2]),
                                    CarriesOnlyTags(ra_in.query))
        ELSE ra_result = NotImplementedError

\* the part of C3 about unsupported URLs alone
C3_UnsupportedFails ==
    (ra_result # None /\ ~IsWholeForgeRepo(ra_in)) => ra_result = NotImplementedError

\* the part of C3 about the owner and plain names (no ".git" inside, no query)
C3_PlainNames ==
    (/\ ra_result # None
     /\ IsWholeForgeRepo(ra_in)
     /\ ~Contains(StripDotGitSuffix(ra_in.segs[2]), S_dot_git)
     /\ ra_in.query \in {NoQuery, S_only_tags})
    => ra_result = GitHubRepo(ra_in.segs[1],
                              StripDotGitSuffix(ra_in.segs[2]),
                              ra_in.query = S_only_tags)

-----------------------------------------------------------------------------
(* repos.py: GitHubRepo.url, get_revisions, checkout                       *)

\* a Python collection value; the order of its items is not modelled
PyList(items) == [type |-> "list", items |-> items]

\* a Python str value, as callers pass it
PyStr(s) == [type |-> "str", val |-> s]

Revision(display_name, url, datetime) ==
    [type |-> "Revision", display_name |-> display_name, url |-> url, datetime |-> datetime]

GitHubRevision(repo, revision) ==
    [type |-> "GitHubRevision", repo |-> repo, revision |-> revision]

ValueError == [type |-> "ValueError"]

AttributeError == [type |-> "AttributeError"]

\* GitHubRepo.url
RepoUrl(self) == S_github_prefix \o self.user \o <<"/">> \o self.repo

\* the forge API's answer, a record [tags, commits] of sets of [name, date]:
\* one Revision per tag (tags mode) or per commit (commit mode)
get_revisions(self, forge) ==
    LET revs == IF self.only_tags THEN forge.tags ELSE forge.commits
    IN {Revision(rev.name, RepoUrl(self) \o S_tree_infix \o rev.name, rev.date) : rev \in revs}

\* path_parts[:4]
FirstFour(parts) == SubSeq(parts, 1, IF Len(parts) < 4 THEN Len(parts) ELSE 4)

\* revision.url raises AttributeError on an object without that attribute
\* checkout, from the parts of the url's path on
ScopeOf(self, path_parts) ==
    IF \/ FirstFour(path_parts) # <<<<"/">>, self.user, self.repo, S_tree>>
       \/ Len(path_parts) # 5
    THEN ValueError
    ELSE GitHubRevision(self, path_parts[5])

checkout(self, revision) ==
    IF revision.type # "Revision" THEN AttributeError
    ELSE Then(PathParts(urlparse(revision.url).path),
              LAMBDA path_parts : ScopeOf(self, path_parts))

-----------------------------------------------------------------------------
(* Inputs of get_revisions and checkout.                                   *)

MaxForgeTags == 2

\* names a forge can return for a tag: git allows "/", "#" and ";" in a ref name
TagNames == {<<"v", "1">>, <<"r", "/", "1">>, <<"a", "#", "b">>, <<"a", ";", "b">>}

\* commit identifiers are hexadecimal
CommitShas == {<<"a", "b", "1", "2">>, <<"c", "d", "3", "4">>}

ForgeDates == {1}

Accessors ==
    {GitHubRepo(u, r, t) : u \in {<<"u">>}, r \in {<<"r">>, <<"s">>}, t \in BOOLEAN}

Forges ==
    {[tags |-> {[name |-> n, date |-> d] : n \in T, d \in ForgeDates},
      commits |-> {[name |-> n, date |-> d] : n \in C, d \in ForgeDates}] :
        T \in {X \in SUBSET TagNames : Cardinality(X) <= MaxForgeTags},
        C \in SUBSET CommitShas}

\* Revisions a caller may hand to checkout that no get_revisions call of this
\* accessor produced: another host, owner, repository or path shape
GivenUrls ==
    {S_https \o <<":", "/", "/">> \o h \o <<"/">> \o u \o <<"/">> \o r \o <<"/">> \o m \o t :
        h \in Hosts, u \in {<<"u">>, <<"w">>}, r \in {<<"r">>, <<"s">>},
        m \in {S_tree, <<"b", "l", "o", "b">>}, t \in {<<>>, <<"/", "v", "1">>}}

GivenRevisions == {Revision(<<"v", "1">>, url, 1) : url \in GivenUrls}

InitRevUrl ==
    /\ gh_repo \in Accessors
    /\ gh_forge \in Forges
    /\ gh_revs = None
    /\ co_arg = None
    /\ co_result = None
    /\ Idle_ra /\ Idle_cc /\ Idle_wk /\ Idle_rf /\ Idle_run /\ Idle_fl /\ Idle_oc

Frame_gh == UNCHANGED <<vars_ra, vars_cc, vars_wk, vars_rf, vars_run, vars_fl, vars_oc>>

\* revisions = repo.get_revisions()
CallGetRevisions ==
    /\ gh_revs = None
    /\ gh_revs' = PyList(get_revisions(gh_repo, gh_forge))
    /\ UNCHANGED <<gh_repo, gh_forge, co_arg, co_result>>
    /\ Frame_gh

\* repo.checkout(revision) for a revision the same accessor discovered
CallCheckoutDiscovered ==
    /\ gh_revs # None
    /\ co_result = None
    /\ \E revision \in gh_revs.items :
          /\ co_arg' = revision
          /\ co_result' = checkout(gh_repo, revision)
    /\ UNCHANGED <<gh_repo, gh_forge, gh_revs>>
    /\ Frame_gh

\* repo.checkout(revision) for a revision from elsewhere
CallCheckoutGiven ==
    /\ co_result = None
    /\ \E revision \in GivenRevisions :
          /\ co_arg' = revision
          /\ co_result' = checkout(gh_repo, revision)
    /\ UNCHANGED <<gh_repo, gh_forge, gh_revs>>
    /\ Frame_gh

NextRevUrl == CallGetRevisions \/ CallCheckoutDiscovered \/ CallCheckoutGiven

SpecRevUrl == InitRevUrl /\ [][NextRevUrl]_vars

-----------------------------------------------------------------------------
(* C4 *)

\* url is {repo_url}/tree/{id} for some non-empty id
IsRevisionUrlOf(url, repo_url) ==
    /\ StartsWith(url, repo_url \o S_tree_infix)
    /\ Len(url) > Len(repo_url \o S_tree_infix)

\* C4: checkout of a Revision whose url is not {repo_url}/tree/{id} for the
\* accessor's own repo_url (another host, owner or repository included) fails
\* with ValueError and hands out no checkout scope.
C4_ForeignUrlRejected ==
    (/\ co_result # None
     /\ ~IsRevisionUrlOf(co_arg.url, RepoUrl(gh_repo)))
    => co_result = ValueError

\* the part of C4 that the code does check: the path of the url
C4_ForeignPathRejected ==
    (/\ co_result # None
     /\ ~IsRevisionUrlOf(urlparse(co_arg.url).path,
                         <<"/">> \o gh_repo.user \o <<"/">> \o gh_repo.repo))
    => co_result = ValueError

-----------------------------------------------------------------------------
(* C10 *)

\* C10: a Revision returned by an accessor's get_revisions passes the same
\* accessor's checkout, and the scope's revision is the Revision's display_name.
C10_RoundTrip ==
    (/\ co_result # None
     /\ gh_revs # None
     /\ co_arg \in gh_revs.items)
    => co_result = GitHubRevision(gh_repo, co_arg.display_name)

\* the round trip in commit mode, and for tag names free of "/", "#", ";"
C10_RoundTripPlainNames ==
    (/\ co_result # None
     /\ gh_revs # None
     /\ co_arg \in gh_revs.items
     /\ Find(co_arg.display_name, {"/", "#", ";", "?"}) = 0)
    => co_result = GitHubRevision(gh_repo, co_arg.display_name)

-----------------------------------------------------------------------------
(* repos.py: GitHubRevision.__enter__ / __exit__ and the clone cache       *)

cache_path == <<".", "c", "a", "c", "h", "e", "2">>

\* the bytes of url.encode("utf-8") for the characters the model's URLs use
CharCode ==
    [c \in {"h", "t", "p", "s", ":", "/", "g", "i", "u", "b", ".", "c", "o", "m", "r", "w"} |->
        CASE c = "h" -> 104 [] c = "t" -> 116 [] c = "p" -> 112 [] c = "s" -> 115
          [] c = ":" -> 58  [] c = "/" -> 47  [] c = "g" -> 103 [] c = "i" -> 105
          [] c = "u" -> 117 [] c = "b" -> 98  [] c = "." -> 46  [] c = "c" -> 99
          [] c = "o" -> 111 [] c = "m" -> 109 [] c = "r" -> 114 [] c = "w" -> 119]

HexDigits == <<"0", "1", "2", "3", "4", "5", "6", "7", "8", "9", "a", "b", "c", "d", "e", "f">>

\* four hexadecimal digits of a 16-bit value
Hex16(n) ==
    <<HexDigits[((n \div 4096) % 16) + 1], HexDigits[((n \div 256) % 16) + 1],
      HexDigits[((n \div 16) % 16) + 1], HexDigits[(n % 16) + 1]>>

\* one byte folded into the two 16-bit halves <<hi, lo>> of the digest
DigestStep(d, c) ==
    LET t == (d[2] * 31) + CharCode[c]
    IN <<((d[1] * 31) + (t \div 65536)) % 65536, t % 65536>>

RECURSIVE Digest32(_, _)
\* A deterministic 32-bit digest of a byte string, kept as two 16-bit halves:
\* it stands for xxhash.xxh32, of which the program uses only that equal
\* bytes give equal digests of 32 bits.
Digest32(s, d) ==
    IF s = <<>> THEN d
    ELSE Then(DigestStep(d, Head(s)), LAMBDA e : Digest32(Tail(s), e))

\* xxhash.xxh32(b).hexdigest()
xxh32_hexdigest(b) == Then(Digest32(b, <<0, 0>>), LAMBDA d : Hex16(d[1]) \o Hex16(d[2]))

\* repo_path = cache_path / url_hash
RepoPath(repo) == cache_path \o <<"/">> \o xxh32_hexdigest(RepoUrl(repo))

NoCommit == <<>>

\* git.repo.Repo.clone_from(url, repo_path): the clone holds the revisions
\* upstream has now, with the default branch, whatever it points at, checked out
CloneFrom(url, head) ==
    [origin |-> url, objects |-> up_revs[url], head |-> head, dirty |-> FALSE]

\* repo.head.reset(revision, index=True, working_tree=True) on a clone
\* that knows the revision
ResetHard(clone, revision) == [clone EXCEPT !.head = revision, !.dirty = FALSE]

\* an __exit__ that removed the clone it used
ExitCacheRemoving(self, c) == [k \in DOMAIN c \ {RepoPath(self.repo)} |-> c[k]]

\* the body of __exit__ as it acts on the cache: pass
ExitCache(self, c) == c

-----------------------------------------------------------------------------
(* Checkouts, one at a time, while upstream publishes.                     *)

MaxClones == 3

CacheRepos == {GitHubRepo(<<"u">>, r, FALSE) : r \in {<<"r">>, <<"w">>}}

RevIds == {<<"v", "1">>, <<"v", "2">>}

CacheEmpty == [k \in {} |-> None]

InitCache ==
    /\ up_revs \in [{RepoUrl(r) : r \in CacheRepos} -> SUBSET RevIds]
    /\ cache = CacheEmpty
    /\ cm = None
    /\ cm_pc = "none"
    /\ local_copy = None
    /\ clone_count = [u \in {RepoUrl(r) : r \in CacheRepos} |-> 0]
    /\ Idle_ra /\ Idle_gh /\ Idle_wk /\ Idle_rf /\ Idle_run /\ Idle_fl /\ Idle_oc

Frame_cc == UNCHANGED <<vars_ra, vars_gh, vars_wk, vars_rf, vars_run, vars_fl, vars_oc>>

\* upstream publishes a new revision
Publish ==
    /\ \E u \in DOMAIN up_revs, id \in RevIds :
          /\ id \notin up_revs[u]
          /\ up_revs' = [up_revs EXCEPT ![u] = @ \cup {id}]
    /\ UNCHANGED <<cache, cm, cm_pc, local_copy, clone_count>>
    /\ Frame_cc

\* repo.checkout(revision) for a Revision of the accessor's own repository
CallCheckout ==
    /\ cm_pc = "none"
    /\ \E repo \in CacheRepos, id \in RevIds :
          LET got == checkout(repo, Revision(id, RepoUrl(repo) \o S_tree_infix \o id, 1))
          IN /\ got.type = "GitHubRevision"
             /\ cm' = got
    /\ cm_pc' = "returned"
    /\ UNCHANGED <<up_revs, cache, local_copy, clone_count>>
    /\ Frame_cc

\* GitHubRevision.__enter__
Enter ==
    /\ cm_pc = "returned"
    /\ LET url == RepoUrl(cm.repo)
           repo_path == RepoPath(cm.repo)
           exists == repo_path \in DOMAIN cache
       IN /\ exists \/ clone_count[url] < MaxClones
          /\ \E head \in (IF up_revs[url] = {} THEN {NoCommit} ELSE up_revs[url]) :
               LET repo == IF exists THEN cache[repo_path] ELSE CloneFrom(url, head)
                   known == cm.revision \in repo.objects
                   after == IF known THEN ResetHard(repo, cm.revision) ELSE repo
               IN /\ cache' = [k \in DOMAIN cache \cup {repo_path} |->
                                  IF k = repo_path THEN after ELSE cache[k]]
                  /\ cm_pc' = IF known THEN "entered" ELSE "failed"
                  /\ local_copy' = IF known THEN repo_path ELSE None
          /\ clone_count' = IF exists THEN clone_count
                            ELSE [clone_count EXCEPT ![url] = @ + 1]
    /\ UNCHANGED <<up_revs, cm>>
    /\ Frame_cc

\* the body of the with statement works in the checked-out tree
ModifyWorkingCopy ==
    /\ cm_pc = "entered"
    /\ ~cache[local_copy].dirty
    /\ cache' = [cache EXCEPT ![local_copy].dirty = TRUE]
    /\ UNCHANGED <<up_revs, cm, cm_pc, local_copy, clone_count>>
    /\ Frame_cc

\* GitHubRevision.__exit__, on normal return or with an exception in flight
Exit ==
    /\ cm_pc = "entered"
    /\ \E exc \in BOOLEAN :
          /\ cache' = ExitCache(cm, cache)
          /\ cm_pc' = "none"
          /\ cm' = None
          /\ local_copy' = None
    /\ UNCHANGED <<up_revs, clone_count>>
    /\ Frame_cc

\* the GitCommandError of a failed reset leaves __enter__; no scope was entered
EnterRaised ==
    /\ cm_pc = "failed"
    /\ cm_pc' = "none"
    /\ cm' = None
    /\ UNCHANGED <<up_revs, cache, local_copy, clone_count>>
    /\ Frame_cc

NextCache == Publish \/ CallCheckout \/ Enter \/ ModifyWorkingCopy \/ Exit \/ EnterRaised

SpecCache == InitCache /\ [][NextCache]_vars

-----------------------------------------------------------------------------
(* C5 *)

\* C5: entering the scope for a revision that exists upstream ends with the
\* cached working copy reset to exactly that revision and yields its path,
\* whether the clone is fresh or reused.
C5_EnterReachesRevision ==
    [][(/\ cm_pc = "returned"
        /\ cm_pc' # "returned"
        /\ cm.revision \in up_revs[RepoUrl(cm.repo)])
       => (/\ cm_pc' = "entered"
           /\ local_copy' = RepoPath(cm.repo)
           /\ cache'[RepoPath(cm.repo)].head = cm.revision
           /\ ~cache'[RepoPath(cm.repo)].dirty)]_vars

\* what the code does guarantee: a fresh clone, or a reused clone that knows the
\* revision, is reset to it
C5_KnownRevisionReached ==
    [][(/\ cm_pc = "returned"
        /\ cm_pc' # "returned"
        /\ cm.revision \in up_revs[RepoUrl(cm.repo)]
        /\ \/ RepoPath(cm.repo) \notin DOMAIN cache
           \/ cm.revision \in cache[RepoPath(cm.repo)].objects)
       => (/\ cm_pc' = "entered"
           /\ local_copy' = RepoPath(cm.repo)
           /\ cache'[RepoPath(cm.repo)].head = cm.revision
           /\ ~cache'[RepoPath(cm.repo)].dirty)]_vars

-----------------------------------------------------------------------------
(* C8 *)

\* C8: leaving a scope changes nothing; a cache directory, once there, stays;
\* a repository is cloned only while its directory is absent, so at most
\* once; every scope of a repository works in that repository's one directory.
C8_CacheRetained ==
    /\ [](\A u \in DOMAIN clone_count : clone_count[u] <= 1)
    /\ [](cm_pc = "entered" => local_copy = RepoPath(cm.repo))
    /\ [](DOMAIN cache \subseteq {RepoPath(r) : r \in CacheRepos})
    /\ [][DOMAIN cache \subseteq DOMAIN cache']_vars
    /\ [][(cm_pc = "entered" /\ cm_pc' = "none")
          => (cache' = cache /\ up_revs' = up_revs /\ clone_count' = clone_count)]_vars
    /\ [][\A r \in CacheRepos :
            clone_count'[RepoUrl(r)] # clone_count[RepoUrl(r)]
            => (RepoPath(r) \notin DOMAIN cache /\ RepoPath(r) \in DOMAIN cache')]_vars

\* a scope of a second revision has been left and the one clone is still there
C8_Witness ==
    /\ cm_pc = "none"
    /\ \E r \in CacheRepos :
          /\ clone_count[RepoUrl(r)] = 1
          /\ RepoPath(r) \in DOMAIN cache
          /\ cache[RepoPath(r)].head = <<"v", "2">>
          /\ cache[RepoPath(r)].dirty

-----------------------------------------------------------------------------
(* util.py: _ignore_vcs and walk                                           *)

\* A path is a sequence of names.  fs.root is the path handed to walk;
\* fs.entries holds the paths below it, relative to it; an entry with entries
\* below it is a directory; fs.ignore maps a directory (<<>> is the root) that
\* holds a .gitignore file to the names that file lists.

\* str(path)
PathStr(path) == StrJoin(path, <<"/">>)

\* the predicate, had it compared the whole path only
_ignore_vcs_whole_path(path) == path = S_dot_git

_ignore_vcs(path) == path = S_dot_git \/ EndsWith(path, S_slash_dot_git)

\* The predicate parse_gitignore returns for a file in directory base listing
\* plain names: a path below base matches when one of its components below
\* base is a listed name.
GitignoreMatches(base, names, path) ==
    /\ StartsWith(path, base \o <<"/">>)
    /\ LET comps == StrSplit(From(path, Len(base) + 2), "/")
       IN \E i \in 1..Len(comps) : comps[i] \in names

VcsPred == [kind |-> "vcs"]

GitignorePred(base, names) == [kind |-> "gitignore", base |-> base, names |-> names]

\* ignore_pred(str(subpath))
ApplyPred(pred, path) ==
    IF pred.kind = "vcs" THEN _ignore_vcs(path)
    ELSE GitignoreMatches(pred.base, pred.names, path)

\* path.is_dir()
IsDir(f, rel) == rel = <<>> \/ \E e \in f.entries : Len(e) > Len(rel) /\ SubSeq(e, 1, Len(rel)) = rel

\* path.iterdir(): the entries directly below, and the .gitignore file if any
IterDir(f, rel) ==
    {e \in f.entries : Len(e) = Len(rel) + 1 /\ SubSeq(e, 1, Len(rel)) = rel}
    \cup (IF rel \in DOMAIN f.ignore THEN {Append(rel, S_gitignore)} ELSE {})

\* the ignore_preds in force below a directory
PredsBelow(f, rel, ignore_preds) ==
    IF rel \in DOMAIN f.ignore
    THEN Append(ignore_preds, GitignorePred(PathStr(f.root \o rel), f.ignore[rel]))
    ELSE ignore_preds

\* the subpaths of the list comprehension that pass its filter
KeptChildren(f, rel, ignore_preds) ==
    {sub \in IterDir(f, rel) :
        ~\E i \in 1..Len(ignore_preds) : ApplyPred(ignore_preds[i], PathStr(f.root \o sub))}

Frame(rel, ignore_preds) ==
    [path |-> rel, ignore_preds |-> ignore_preds, expanded |-> FALSE, todo |-> {}]

-----------------------------------------------------------------------------
(* The directory trees walked.                                             *)

MaxEntries == 4

MaxIgnoreFiles == 2

EntryNames == {<<"a">>, <<"b">>, S_dot_git}

IgnorableNames == {<<"a">>, <<"b">>}

RootPaths == {<<<<"w">>>>, <<<<"w">>, S_dot_git>>}

CandidateEntries ==
    {<<n>> : n \in EntryNames} \cup {<<n, m>> : n \in EntryNames, m \in EntryNames}

EntrySets ==
    {T \in SUBSET CandidateEntries :
        /\ Cardinality(T) <= MaxEntries
        /\ \A e \in T : Len(e) = 2 => <<e[1]>> \in T}

\* the .gitignore files a tree may hold: in the root and in directories
IgnoreFiles(T) ==
    LET dirs == {<<>>} \cup {e \in T : \E d \in T : Len(d) = 2 /\ <<d[1]>> = e}
    IN UNION {[D -> {{n} : n \in IgnorableNames}] :
                 D \in {X \in SUBSET dirs : Cardinality(X) <= MaxIgnoreFiles}}

InitWalk ==
    /\ \E root \in RootPaths, T \in EntrySets :
          \E ig \in IgnoreFiles(T) :
             fs = [root |-> root, entries |-> T, ignore |-> ig]
    /\ wk_stack = <<Frame(<<>>, <<VcsPred>>)>>
    /\ wk_visited = <<>>
    /\ Idle_ra /\ Idle_gh /\ Idle_cc /\ Idle_rf /\ Idle_run /\ Idle_fl /\ Idle_oc

Frame_wk == UNCHANGED <<vars_ra, vars_gh, vars_cc, vars_rf, vars_run, vars_fl, vars_oc>>

Top == wk_stack[Len(wk_stack)]

ReplaceTop(frame) == [wk_stack EXCEPT ![Len(wk_stack)] = frame]

\* walk, on entry: is_dir, the .gitignore file, the filtered iterdir
WalkEnter ==
    /\ wk_stack # <<>>
    /\ ~Top.expanded
    /\ LET preds == IF IsDir(fs, Top.path)
                    THEN PredsBelow(fs, Top.path, Top.ignore_preds)
                    ELSE Top.ignore_preds
           kept == IF IsDir(fs, Top.path) THEN KeptChildren(fs, Top.path, preds) ELSE {}
       IN wk_stack' = ReplaceTop([Top EXCEPT !.ignore_preds = preds,
                                             !.expanded = TRUE,
                                             !.todo = kept])
    /\ UNCHANGED <<fs, wk_visited>>
    /\ Frame_wk

\* walk(mapper, subpath, ignore_preds) for the next subpath, in iterdir's order
WalkRecurse ==
    /\ wk_stack # <<>>
    /\ Top.expanded
    /\ \E sub \in Top.todo :
          wk_stack' = Append(ReplaceTop([Top EXCEPT !.todo = @ \ {sub}]),
                             Frame(sub, Top.ignore_preds))
    /\ UNCHANGED <<fs, wk_visited>>
    /\ Frame_wk

\* return mapper(path, children)
WalkReturn ==
    /\ wk_stack # <<>>
    /\ Top.expanded
    /\ Top.todo = {}
    /\ wk_visited' = Append(wk_visited, Top.path)
    /\ wk_stack' = SubSeq(wk_stack, 1, Len(wk_stack) - 1)
    /\ UNCHANGED fs
    /\ Frame_wk

NextWalk == WalkEnter \/ WalkRecurse \/ WalkReturn

SpecWalk == InitWalk /\ [][NextWalk]_vars

-----------------------------------------------------------------------------
(* C7 *)

\* every path of the tree, the root (<<>>) and the .gitignore files included
AllPaths == {<<>>} \cup fs.entries \cup {Append(d, S_gitignore) : d \in DOMAIN fs.ignore}

Prefixes(p) == {SubSeq(p, 1, k) : k \in 0..Len(p)}

\* p is named .git, or a .gitignore of a directory above it lists one of the
\* names that lead from that directory to p
Excluded(p) ==
    \/ (fs.root \o p)[Len(fs.root \o p)] = S_dot_git
    \/ \E k \in 0..(Len(p) - 1) :
          /\ SubSeq(p, 1, k) \in DOMAIN fs.ignore
          /\ \E j \in (k + 1)..Len(p) : p[j] \in fs.ignore[SubSeq(p, 1, k)]

Count(seq, x) == Cardinality({i \in 1..Len(seq) : seq[i] = x})

Index(seq, x) == CHOOSE i \in 1..Len(seq) : seq[i] = x

\* the set V is visited exactly: each once, children before their parents
VisitedExactly(V) ==
    /\ \A p \in AllPaths : Count(wk_visited, p) = (IF p \in V THEN 1 ELSE 0)
    /\ \A p \in V, q \in V :
          (Len(q) = Len(p) + 1 /\ SubSeq(q, 1, Len(p)) = p)
          => Index(wk_visited, q) < Index(wk_visited, p)

\* C7 as claimed: mapper is invoked on no excluded path and on no path below
\* one, and exactly once, after its children, on every other path.
C7_AsClaimed ==
    wk_stack = <<>> =>
        VisitedExactly({p \in AllPaths : ~\E q \in Prefixes(p) : Excluded(q)})

\* C7, amended: the same, for every path other than the root handed to walk,
\* on which mapper is always invoked.
C7_PrunedBelowRoot ==
    wk_stack = <<>> =>
        VisitedExactly({p \in AllPaths : ~\E q \in Prefixes(p) \ {<<>>} : Excluded(q)})

\* a finished walk that pruned a/b by a's .gitignore and a .git entry, and
\* visited the sibling b of a
C7_Witness ==
    /\ wk_stack = <<>>
    /\ fs.root = <<<<"w">>>>
    /\ fs.entries = {<<<<"a">>>>, <<<<"a">>, <<"b">>>>, <<<<"b">>>>, <<S_dot_git>>}
    /\ DOMAIN fs.ignore = {<<<<"a">>>>}
    /\ fs.ignore[<<<<"a">>>>] = {<<"b">>}
    /\ Count(wk_visited, <<<<"b">>>>) = 1
    /\ Count(wk_visited, <<<<"a">>, <<"b">>>>) = 0
    /\ Count(wk_visited, <<S_dot_git>>) = 0

-----------------------------------------------------------------------------
(* __main__.py: refresh_revisions                                          *)

WorkflowApp(display_name, repo_url) ==
    [type |-> "WorkflowApp", display_name |-> display_name, repo_url |-> repo_url]

\* what makes two Revision objects equal members of a set: their url
RevisionKey(revision) == revision.url

RevisionKeys(revisions) == {RevisionKey(r) : r \in revisions}

SeqRange(seq) == {seq[i] : i \in 1..Len(seq)}

\* the tree MerkleTreeNode.from_path builds of the working copy
WithTree(revision, local_copy_path) ==
    [type |-> "Revision", display_name |-> revision.display_name, url |-> revision.url,
     datetime |-> revision.datetime, tree |-> local_copy_path]

RECURSIVE AddNewRevisions(_, _, _)
\* for revision in new_revisions: with repo.checkout(revision.url) as local_copy: ...
\* the stored list after the loop, or the exception that left it
AddNewRevisions(repo, stored, new_revisions) ==
    IF new_revisions = {} THEN [raised |-> "no", revisions |-> stored]
    ELSE LET revision == CHOOSE r \in new_revisions : TRUE
             scope == checkout(repo, PyStr(revision.url))
         IN IF scope.type # "GitHubRevision"
            THEN [raised |-> scope.type, revisions |-> stored]
            ELSE AddNewRevisions(repo,
                                 Append(stored, WithTree(revision, RepoPath(scope.repo))),
                                 new_revisions \ {revision})

RECURSIVE RefreshApps(_, _, _, _)
\* for wf_app in wf_apps: ...   db and forge map an application to its stored
\* list of Revisions and to the forge's answer; the result is the outcome, the
\* stored lists and the applications a deletion warning named
RefreshApps(wf_apps, db, forge, warned) ==
    IF wf_apps = <<>> THEN [raised |-> "no", db |-> db, warned |-> warned]
    ELSE LET wf_app == Head(wf_apps)
             repo == get_repo_accessor(wf_app.repo_url)
         IN IF repo.type # "GitHubRepo"
            THEN [raised |-> repo.type, db |-> db, warned |-> warned]
            ELSE LET db_revisions == SeqRange(db[wf_app.display_name])
                     observed_revisions == get_revisions(repo, forge[wf_app.display_name])
                     deleted_revisions ==
                         {r \in db_revisions :
                             RevisionKey(r) \notin RevisionKeys(observed_revisions)}
                     new_revisions ==
                         {r \in observed_revisions :
                             RevisionKey(r) \notin RevisionKeys(db_revisions)}
                     warned2 == IF deleted_revisions # {}
                                THEN warned \cup {wf_app.display_name} ELSE warned
                     added == AddNewRevisions(repo, db[wf_app.display_name], new_revisions)
                 IN IF added.raised # "no"
                    THEN [raised |-> added.raised, db |-> db, warned |-> warned2]
                    ELSE RefreshApps(Tail(wf_apps),
                                     [db EXCEPT ![wf_app.display_name] = added.revisions],
                                     forge, warned2)

\* refresh_revisions(session): one transaction; an exception leaves the with
\* session.begin() block, which rolls back
refresh_revisions(wf_apps, db, forge) ==
    LET done == RefreshApps(wf_apps, db, forge, {})
    IN [raised |-> done.raised,
        db |-> IF done.raised = "no" THEN done.db ELSE db,
        warned |-> done.warned]

-----------------------------------------------------------------------------
(* Reconciliation passes against a changing upstream.                      *)

MaxStored == 2

AppNames == {<<"r">>, <<"w">>}

\* the catalog, in the order the SELECT returns it
StoredApps ==
    <<WorkflowApp(<<"r">>, S_github_prefix \o <<"u", "/", "r", "?">> \o S_only_tags),
      WorkflowApp(<<"w">>, S_github_prefix \o <<"u", "/", "w", "?">> \o S_only_tags)>>

AppRevision(app, id) ==
    Revision(id, S_github_prefix \o <<"u", "/">> \o app \o S_tree_infix \o id, 1)

\* the forge's answer for an application whose repository has these tags
ForgeOf(ids) == [tags |-> {[name |-> id, date |-> 1] : id \in ids}, commits |-> {}]

\* the lists of Revisions a database may hold for an application
StoredLists(app) ==
    UNION {{[i \in 1..n |-> AppRevision(app, f[i])] :
               f \in {g \in [1..n -> RevIds] : \A i, j \in 1..n : g[i] = g[j] => i = j}} :
           n \in 0..MaxStored}

InitRefresh ==
    /\ rf_upstream \in [AppNames -> SUBSET RevIds]
    /\ \E dr \in StoredLists(<<"r">>), dw \in StoredLists(<<"w">>) :
          rf_db = [a \in AppNames |-> IF a = <<"r">> THEN dr ELSE dw]
    /\ rf_warnings = PyList({})
    /\ rf_outcome = None
    /\ Idle_ra /\ Idle_gh /\ Idle_cc /\ Idle_wk /\ Idle_run /\ Idle_fl /\ Idle_oc

Frame_rf == UNCHANGED <<vars_ra, vars_gh, vars_cc, vars_wk, vars_run, vars_fl, vars_oc>>

\* upstream publishes a tag
UpstreamPublish ==
    /\ \E a \in AppNames, id \in RevIds :
          /\ id \notin rf_upstream[a]
          /\ rf_upstream' = [rf_upstream EXCEPT ![a] = @ \cup {id}]
    /\ UNCHANGED <<rf_db, rf_warnings, rf_outcome>>
    /\ Frame_rf

\* upstream deletes a tag
UpstreamDelete ==
    /\ \E a \in AppNames, id \in RevIds :
          /\ id \in rf_upstream[a]
          /\ rf_upstream' = [rf_upstream EXCEPT ![a] = @ \ {id}]
    /\ UNCHANGED <<rf_db, rf_warnings, rf_outcome>>
    /\ Frame_rf

\* one call refresh_revisions(session)
RefreshPass ==
    /\ rf_outcome = None
    /\ LET pass == refresh_revisions(StoredApps, rf_db,
                                     [a \in AppNames |-> ForgeOf(rf_upstream[a])])
       IN /\ rf_db' = pass.db
          /\ rf_warnings' = PyList(pass.warned)
          /\ rf_outcome' = [type |-> pass.raised]
    /\ UNCHANGED rf_upstream
    /\ Frame_rf

\* the process ends; the next invocation starts from the stored catalog
RefreshEnded ==
    /\ rf_outcome # None
    /\ rf_outcome' = None
    /\ rf_warnings' = PyList({})
    /\ UNCHANGED <<rf_upstream, rf_db>>
    /\ Frame_rf

NextRefresh == UpstreamPublish \/ UpstreamDelete \/ RefreshPass \/ RefreshEnded

SpecRefresh == InitRefresh /\ [][NextRefresh]_vars

-----------------------------------------------------------------------------
(* C6 *)

StoredUrls(db, a) == {db[a][i].url : i \in 1..Len(db[a])}

ObservedUrls(a) == {AppRevision(a, id).url : id \in rf_upstream[a]}

\* C6: after a pass an application's stored revisions are those stored before
\* plus every observed revision not yet stored, each once; none is removed.
C6_PassAddsObserved ==
    [][(rf_outcome = None /\ rf_outcome' # None)
       => \A a \in AppNames :
             /\ StoredUrls(rf_db', a) = StoredUrls(rf_db, a) \cup ObservedUrls(a)
             /\ Len(rf_db'[a]) = Cardinality(StoredUrls(rf_db', a))
             /\ SubSeq(rf_db'[a], 1, Len(rf_db[a])) = rf_db[a]]_vars

\* the part of C6 that holds: no step removes a stored revision, and a
\* revision absent upstream draws a warning only
C6_NeverRemoved ==
    [][\A a \in AppNames :
          /\ Len(rf_db'[a]) >= Len(rf_db[a])
          /\ SubSeq(rf_db'[a], 1, Len(rf_db[a])) = rf_db[a]]_vars

-----------------------------------------------------------------------------
(* __main__.py: run_out_of_date                                            *)

\* timedelta(days=100), the period main passes; datetimes are days
period == 100

\* an Execution row: the engine's record of one run
Execution(datetime) == [type |-> "Execution", datetime |-> datetime]

\* wf_engine.run(local_copy, session): the engine returns an Execution dated
\* at the time of the run
wf_engine_run(local_copy_path, now) == Execution(now)

\* select(Execution._revision_id).where(Execution.datetime > now - period):
\* one row for each recent execution, named here by revision and position
recent_executions(db, now, p) ==
    UNION {{[_revision_id |-> r, row |-> i] :
               i \in {j \in 1..Len(db[r]) : db[r][j].datetime > now - p}} :
           r \in DOMAIN db}

NULL == [type |-> "NULL"]

\* select(Revision).join(recent_executions, ..., isouter=True): a row for each
\* pair of a revision and one of its recent executions, and a row with NULL on
\* the right for a revision that has none
OuterJoin(db, recent) ==
    UNION {{[revision |-> r, _revision_id |-> x._revision_id, row |-> x.row] :
               x \in {y \in recent : y._revision_id = r}} :
           r \in DOMAIN db}
    \cup {[revision |-> r, _revision_id |-> NULL, row |-> NULL] :
             r \in {q \in DOMAIN db : \A y \in recent : y._revision_id # q}}

RECURSIVE RowsToList(_)
\* .scalars().all(): the revision of every remaining row, in the order the
\* database returns the rows
RowsToList(rows) ==
    IF rows = {} THEN <<>>
    ELSE LET x == CHOOSE y \in rows : TRUE
         IN <<x.revision>> \o RowsToList(rows \ {x})

\* revisions_to_test
revisions_to_test(db, now, p) ==
    RowsToList({x \in OuterJoin(db, recent_executions(db, now, p)) :
                   x._revision_id = NULL})

RECURSIVE RunRevisions(_, _, _)
\* for revision in revisions_to_test: ...   the executions after the loop, or
\* the exception that left it
RunRevisions(to_test, db, now) ==
    IF to_test = <<>> THEN [raised |-> "no", db |-> db]
    ELSE LET revision == Head(to_test)
             repo == get_repo_accessor(revision.workflow_app.repo_url)
         IN IF repo.type # "GitHubRepo"
            THEN [raised |-> repo.type, db |-> db]
            ELSE LET scope == checkout(repo, PyStr(revision.url))
                 IN IF scope.type # "GitHubRevision"
                    THEN [raised |-> scope.type, db |-> db]
                    ELSE RunRevisions(
                             Tail(to_test),
                             [db EXCEPT ![revision] =
                                 Append(@, wf_engine_run(RepoPath(scope.repo), now))],
                             now)

\* run_out_of_date(period, session): the second transaction rolls back when
\* an exception leaves it
run_out_of_date(p, db, now) ==
    LET to_test == revisions_to_test(db, now, p)
        ran == RunRevisions(to_test, db, now)
    IN [raised |-> ran.raised,
        selected |-> to_test,
        db |-> IF ran.raised = "no" THEN ran.db ELSE db]

-----------------------------------------------------------------------------
(* Runs over a catalog with executions of several ages.                    *)

MaxRunExecs == 2

\* the clock at the first run and the days one step of the clock adds
RunStart == 200

RunStep == 50

MaxRunNow == 300

\* datetimes of the executions recorded before the first run
RunDates == {50, 100, 150}

\* a catalogued Revision with its back-reference to the application
RunRevision(app, id) ==
    [type |-> "Revision", display_name |-> id, url |-> AppRevision(app, id).url,
     workflow_app |-> WorkflowApp(app, S_github_prefix \o <<"u", "/">> \o app)]

RunCatalog ==
    {RunRevision(<<"r">>, <<"v", "1">>), RunRevision(<<"r">>, <<"v", "2">>),
     RunRevision(<<"w">>, <<"v", "1">>)}

\* executions are appended in chronological order
RunHistories ==
    UNION {{[i \in 1..n |-> Execution(f[i])] :
               f \in {g \in [1..n -> RunDates] : \A i, j \in 1..n : i < j => g[i] <= g[j]}} :
           n \in 0..MaxRunExecs}

InitRun ==
    /\ run_db \in [RunCatalog -> RunHistories]
    /\ run_now = RunStart
    /\ run_selected = None
    /\ run_outcome = None
    /\ Idle_ra /\ Idle_gh /\ Idle_cc /\ Idle_wk /\ Idle_rf /\ Idle_fl /\ Idle_oc

Frame_run == UNCHANGED <<vars_ra, vars_gh, vars_cc, vars_wk, vars_rf, vars_fl, vars_oc>>

\* one call run_out_of_date(timedelta(days=100), session)
RunOutOfDate ==
    /\ run_outcome = None
    /\ LET run == run_out_of_date(period, run_db, run_now)
       IN /\ run_db' = run.db
          /\ run_selected' = PyList(run.selected)
          /\ run_outcome' = [type |-> run.raised]
    /\ UNCHANGED run_now
    /\ Frame_run

\* the process ends; the external scheduler invokes the next one later
RunEnded ==
    /\ run_outcome # None
    /\ run_now + RunStep <= MaxRunNow
    /\ run_now' = run_now + RunStep
    /\ run_outcome' = None
    /\ run_selected' = None
    /\ UNCHANGED run_db
    /\ Frame_run

NextRun == RunOutOfDate \/ RunEnded

SpecRun == InitRun /\ [][NextRun]_vars

-----------------------------------------------------------------------------
(* C9 *)

\* the revisions with no execution later than now - period
OutOfDate(db, now) ==
    {r \in DOMAIN db : \A i \in 1..Len(db[r]) : ~(db[r][i].datetime > now - period)}

\* C9: a run selects exactly the revisions with no execution later than
\* now - period, each once; when it ends each selected revision has exactly one
\* new Execution appended, and every other revision's executions are unchanged.
C9_RunAppendsExecutions ==
    [][(run_outcome = None /\ run_outcome' # None)
       => /\ SeqRange(run_selected'.items) = OutOfDate(run_db, run_now)
          /\ Len(run_selected'.items) = Cardinality(OutOfDate(run_db, run_now))
          /\ \A r \in RunCatalog :
                IF r \in OutOfDate(run_db, run_now)
                THEN /\ Len(run_db'[r]) = Len(run_db[r]) + 1
                     /\ SubSeq(run_db'[r], 1, Len(run_db[r])) = run_db[r]
                ELSE run_db'[r] = run_db[r]]_vars

\* the part of C9 that holds: the selection is exact, each revision once, and
\* a revision with an execution inside the window keeps its executions
C9_Selection ==
    [][(run_outcome = None /\ run_outcome' # None)
       => /\ SeqRange(run_selected'.items) = OutOfDate(run_db, run_now)
          /\ Len(run_selected'.items) = Cardinality(OutOfDate(run_db, run_now))
          /\ \A r \in RunCatalog \ OutOfDate(run_db, run_now) :
                run_db'[r] = run_db[r]]_vars

-----------------------------------------------------------------------------
(* Flat-file orchestrator, step 4: selection of the revisions to re-test.  *)

\* the freshness window, in days, and the desired number of executions in it
freshness_window == 100

desired_count == 2

\* the executions of a revision whose timestamp falls within the window
FreshExecutions(executions, now) ==
    {i \in 1..Len(executions) : executions[i].datetime > now - freshness_window}

\* the missing executions, had every execution counted whatever its date
MissingOfAll(executions, now) ==
    IF Len(executions) < desired_count THEN desired_count - Len(executions) ELSE 0

\* the executions a revision is missing
Missing(executions, now) ==
    IF Cardinality(FreshExecutions(executions, now)) < desired_count
    THEN desired_count - Cardinality(FreshExecutions(executions, now))
    ELSE 0

RECURSIVE Repeat(_, _)
\* [x] * n
Repeat(x, n) == IF n <= 0 THEN <<>> ELSE <<x>> \o Repeat(x, n - 1)

RECURSIVE Enqueue(_, _, _)
\* the queue in catalog order: each revision once per missing execution
Enqueue(revisions, catalog, now) ==
    IF revisions = <<>> THEN <<>>
    ELSE Repeat(Head(revisions), Missing(catalog[Head(revisions)], now))
         \o Enqueue(Tail(revisions), catalog, now)

\* random.shuffle: every order of the queue's elements
Shuffles(queue) ==
    {[i \in 1..Len(queue) |-> queue[f[i]]] :
        f \in {g \in [1..Len(queue) -> 1..Len(queue)] :
                  \A i, j \in 1..Len(queue) : g[i] = g[j] => i = j}}

-----------------------------------------------------------------------------
(* Selections over a catalog with executions of several ages.              *)

MaxFlExecs == 3

FlStart == 200

FlStep == 50

MaxFlNow == 300

FlDates == {50, 100, 150}

\* the catalog's revisions, in catalog order
FlRevisions == <<AppRevision(<<"r">>, <<"v", "1">>), AppRevision(<<"w">>, <<"v", "1">>)>>

FlHistories ==
    UNION {{[i \in 1..n |-> Execution(f[i])] :
               f \in {g \in [1..n -> FlDates] : \A i, j \in 1..n : i < j => g[i] <= g[j]}} :
           n \in 0..MaxFlExecs}

InitSelect ==
    /\ fl_catalog \in [SeqRange(FlRevisions) -> FlHistories]
    /\ fl_now = FlStart
    /\ fl_queue = None
    /\ Idle_ra /\ Idle_gh /\ Idle_cc /\ Idle_wk /\ Idle_rf /\ Idle_run /\ Idle_oc

Frame_fl == UNCHANGED <<vars_ra, vars_gh, vars_cc, vars_wk, vars_rf, vars_run, vars_oc>>

\* step 4: build the queue, then shuffle it
SelectDue ==
    /\ fl_queue = None
    /\ \E shuffled \in Shuffles(Enqueue(FlRevisions, fl_catalog, fl_now)) :
          fl_queue' = PyList(shuffled)
    /\ UNCHANGED <<fl_catalog, fl_now>>
    /\ Frame_fl

\* a dry run ends; the external scheduler invokes the next one later
SelectEnded ==
    /\ fl_queue # None
    /\ fl_now + FlStep <= MaxFlNow
    /\ fl_now' = fl_now + FlStep
    /\ fl_queue' = None
    /\ UNCHANGED fl_catalog
    /\ Frame_fl

NextSelect == SelectDue \/ SelectEnded

SpecSelect == InitSelect /\ [][NextSelect]_vars

-----------------------------------------------------------------------------
(* C1 *)

Max(a, b) == IF a >= b THEN a ELSE b

\* the executions of r dated inside, and outside, a window of w days
Inside(r, w) == {i \in 1..Len(fl_catalog[r]) : fl_catalog[r][i].datetime > fl_now - w}

Outside(r, w) == (1..Len(fl_catalog[r])) \ Inside(r, w)

\* C1: every revision is in the run queue max(0, desired_count - n) times, n
\* its executions inside the window; with a window of 100 days and desired
\* count 2, no executions gives twice, two inside gives none, and one inside
\* with one outside gives once, in whatever order the shuffle leaves the queue.
C1_Multiplicity ==
    fl_queue # None =>
        \A r \in SeqRange(FlRevisions) :
            /\ Count(fl_queue.items, r)
                  = Max(0, desired_count - Cardinality(Inside(r, freshness_window)))
            /\ Len(fl_catalog[r]) = 0 => Count(fl_queue.items, r) = 2
            /\ (Len(fl_catalog[r]) = 2 /\ Cardinality(Inside(r, 100)) = 2)
                  => Count(fl_queue.items, r) = 0
            /\ (Cardinality(Inside(r, 100)) = 1 /\ Cardinality(Outside(r, 100)) = 1)
                  => Count(fl_queue.items, r) = 1

\* a shuffled queue, out of catalog order, that holds one revision twice and
\* the other, with one execution inside the window and one outside, once
C1_Witness ==
    /\ fl_queue # None
    /\ fl_queue.items = <<FlRevisions[1], FlRevisions[2], FlRevisions[1]>>
    /\ Len(fl_catalog[FlRevisions[1]]) = 0
    /\ Cardinality(Inside(FlRevisions[2], 100)) = 1
    /\ Cardinality(Outside(FlRevisions[2], 100)) = 1

-----------------------------------------------------------------------------
(* Flat-file orchestrator, step 6: the orphan check.                       *)

PySet(items) == [type |-> "set", items |-> items]

\* the used set, had the outputs been added to the trees
UsedTreesUnion(trees, outputs) == trees \cup outputs

\* the "used" set: all revisions' content trees minus all executions' outputs
UsedTrees(trees, outputs) == trees \ outputs

\* the entries of the data directory that are not in the used set
Orphans(store, used) == store \ used

\* the data directory after the check
StoreAfterCheck(store, orphans) == store

StoreEntries == {"A", "B", "C"}

InitOrphan ==
    /\ oc_trees \in SUBSET StoreEntries
    /\ oc_outputs \in SUBSET StoreEntries
    /\ oc_store \in SUBSET StoreEntries
    /\ oc_used = None
    /\ oc_warning = None
    /\ Idle_ra /\ Idle_gh /\ Idle_cc /\ Idle_wk /\ Idle_rf /\ Idle_run /\ Idle_fl

Frame_oc == UNCHANGED <<vars_ra, vars_gh, vars_cc, vars_wk, vars_rf, vars_run, vars_fl>>

\* step 6: compute the used set and warn of the entries outside it
OrphanCheck ==
    /\ oc_used = None
    /\ oc_used' = PySet(UsedTrees(oc_trees, oc_outputs))
    /\ oc_warning' = PySet(Orphans(oc_store, UsedTrees(oc_trees, oc_outputs)))
    /\ oc_store' = StoreAfterCheck(oc_store, Orphans(oc_store, UsedTrees(oc_trees, oc_outputs)))
    /\ UNCHANGED <<oc_trees, oc_outputs>>
    /\ Frame_oc

\* the process ends
OrphanCheckEnded ==
    /\ oc_used # None
    /\ oc_used' = None
    /\ oc_warning' = None
    /\ UNCHANGED <<oc_trees, oc_outputs, oc_store>>
    /\ Frame_oc

NextOrphan == OrphanCheck \/ OrphanCheckEnded

SpecOrphan == InitOrphan /\ [][NextOrphan]_vars

-----------------------------------------------------------------------------
(* C2 *)

\* C2: the used set is the revisions' trees minus the executions' outputs and
\* the warning lists exactly the store entries outside it; for a store
\* {A, B, C} with A a tree and an output, B a tree only and C unreferenced,
\* used is {B} and the warning names {A, C}; no step changes the store.
C2_OrphanCheck ==
    /\ [](oc_used # None =>
            /\ oc_used.items = {e \in oc_trees : e \notin oc_outputs}
            /\ oc_warning.items = {e \in oc_store : e \notin oc_used.items}
            /\ (oc_store = {"A", "B", "C"} /\ oc_trees = {"A", "B"} /\ oc_outputs = {"A"})
                  => (oc_used.items = {"B"} /\ oc_warning.items = {"A", "C"}))
    /\ [][oc_store' = oc_store]_vars

\* the scenario of the claim, checked
C2_Witness ==
    /\ oc_used # None
    /\ oc_store = {"A", "B", "C"}
    /\ oc_trees = {"A", "B"}
    /\ oc_outputs = {"A"}
    /\ oc_warning.items = {"A", "C"}

====
